---- MODULE Spec2Model ----
(***************************************************************************)
(* Model of the conversion pipeline of nlp-infer-bench:                    *)
(*   src/src/nlp_infer_bench/config.py      ModelRegistry, RegistryEntry   *)
(*   src/src/nlp_infer_bench/conversion.py  Converter.plan_tasks / run     *)
(*   src/src/nlp_infer_bench/s3_utils.py    upload_directory               *)
(*                                                                         *)
(* A Python string is a sequence of chunks (short strings); the separator   *)
(* "/" is always a chunk of its own, so that replace, strip, partition and *)
(* startswith act on it as they do in the code.                            *)
(***************************************************************************)
EXTENDS Integers, Sequences, FiniteSets, TLC

VARIABLES
    job,          \* ExperimentConfig: models, conversion.*, model_bucket
    upload,       \* the keyword argument of Converter.run
    registry,     \* Converter.registry.artifacts (in memory)
    disk,         \* the file at config.model_registry
    fs,           \* output directories of the local cache
    cache_base,   \* does conversion.local_cache exist
    s3,           \* objects in the store: [bucket, key, body]
    status,       \* "idle", "running", "done", "failed" or "crashed"
    pc,           \* position of the process inside convert_models / run
    tasks,        \* the local `tasks` of run
    idx,          \* position of the for loop of run (1-based)
    s3_uri,       \* the local `s3_uri` of run
    run,          \* number of processes started so far
    log,          \* history: the events of the current process
    prev,         \* history: how the previous process ended
    upserted,     \* history: last entry upserted per triple (registry-level runs)
    ops,          \* history: number of registry-level operations applied
    result,       \* history: the last call of registry.filter and what it returned
    saved         \* history: the registry at the last completed save (registry-level runs)

vars == <<job, upload, registry, disk, fs, cache_base, s3, status, pc, tasks, idx,
          s3_uri, run, log, prev, upserted, ops, result, saved>>

----------------------------------------------------------------------------
(* Bounds *)

MaxRuns == 2
MaxTasks == 3
MaxOps == 3
MaxFileLen == 2

----------------------------------------------------------------------------
(* Input domains *)

None == <<>>

ModelNames == { <<"o", "/", "m">>, <<"o", "-", "m">> }

_CONVERTERS == {"transformers", "onnx-runtime", "openvino"}

JobFrameworks == {"onnx-runtime", "tensorrt"}

Precision == <<"fp32">>

LocalCache == <<"cache">>

S3Scheme == <<"s3:", "/", "/">>

ModelBucket == S3Scheme \o <<"bkt">>

ModelConfig(name) == [name |-> name, task |-> "cls", revision |-> "main"]

SeqsUpTo(S, n) == UNION { [1..k -> S] : k \in 1..n }

\* the (models, frameworks) lists of the jobs: at most MaxTasks pairs
JobShapes ==
    { sh \in SeqsUpTo({ModelConfig(n) : n \in ModelNames}, MaxTasks)
                \X SeqsUpTo(JobFrameworks, MaxTasks) :
        Len(sh[1]) * Len(sh[2]) <= MaxTasks }

Jobs ==
    { [models |-> sh[1], frameworks |-> sh[2], precision |-> Precision,
       overwrite |-> ow, local_cache |-> LocalCache, model_bucket |-> ModelBucket] :
        sh \in JobShapes, ow \in BOOLEAN }

----------------------------------------------------------------------------
(* config.py: RegistryEntry and ModelRegistry *)

RegistryEntry(model_name, framework, precision, task, revision, local_path, uri) ==
    [model_name |-> model_name, framework |-> framework, precision |-> precision,
     task |-> task, revision |-> revision, local_path |-> local_path,
     s3_uri |-> uri, conversion_command |-> None, metrics |-> <<>>]

NoEntry == [none |-> TRUE]

Matches(entry, model_name, framework, precision) ==
    /\ entry.model_name = model_name
    /\ entry.framework = framework
    /\ entry.precision = precision

RECURSIVE find(_, _, _, _)
find(artifacts, model_name, framework, precision) ==
    IF artifacts = <<>> THEN NoEntry
    ELSE IF Matches(Head(artifacts), model_name, framework, precision)
         THEN Head(artifacts)
         ELSE find(Tail(artifacts), model_name, framework, precision)

RECURSIVE remove(_, _)
remove(artifacts, x) ==
    IF artifacts = <<>> THEN <<>>
    ELSE IF Head(artifacts) = x THEN Tail(artifacts)
         ELSE <<Head(artifacts)>> \o remove(Tail(artifacts), x)

\* an upsert that forgets to remove the existing entry
upsert_append(artifacts, entry) == Append(artifacts, entry)

Triple(entry) == <<entry.model_name, entry.framework, entry.precision>>

\* an upsert that puts the entry where the existing one was
upsert_in_place(artifacts, entry) ==
    IF find(artifacts, entry.model_name, entry.framework, entry.precision) = NoEntry
    THEN Append(artifacts, entry)
    ELSE LET at == CHOOSE k \in 1..Len(artifacts) :
                       /\ Triple(artifacts[k]) = Triple(entry)
                       /\ \A j \in 1..(k - 1) : Triple(artifacts[j]) # Triple(entry)
         IN  [artifacts EXCEPT ![at] = entry]

upsert(artifacts, entry) ==
    LET existing == find(artifacts, entry.model_name, entry.framework, entry.precision)
    IN  IF existing # NoEntry
        THEN Append(remove(artifacts, existing), entry)
        ELSE Append(artifacts, entry)

to_dict(artifacts) == [artifacts |-> artifacts]

\* yaml: the type that the implicit resolver gives a plain scalar
resolve(text) ==
    IF text \in {<<>>, <<"~">>, <<"null">>, <<"Null">>, <<"NULL">>} THEN "null" ELSE "str"

\* a dump that writes every string as a plain scalar
represent_str_plain(text) == [style |-> "plain", text |-> text]

\* yaml: a string is written plain unless a plain scalar of that text would
\* be read back as something else, then it is quoted
represent_str(text) ==
    [style |-> IF resolve(text) = "str" THEN "plain" ELSE "quoted", text |-> text]

represent_none == [style |-> "plain", text |-> <<"null">>]

\* a field of type Optional[str]
represent_optional(value) ==
    IF value = None THEN represent_none ELSE represent_str(value)

\* yaml: what a scalar node is read back as
construct_scalar(node) ==
    IF node.style = "plain" /\ resolve(node.text) = "null" THEN None ELSE node.text

\* the same for the fields that the model holds as one chunk
construct_word(node) ==
    IF construct_scalar(node) = None THEN "" ELSE construct_scalar(node)[1]

\* yaml.safe_dump of entry.__dict__, field by field
represent_entry(entry) ==
    [model_name |-> represent_str(entry.model_name),
     framework |-> represent_str(<<entry.framework>>),
     precision |-> represent_str(entry.precision),
     task |-> represent_str(<<entry.task>>),
     revision |-> represent_str(<<entry.revision>>),
     local_path |-> represent_str(entry.local_path),
     s3_uri |-> represent_optional(entry.s3_uri),
     conversion_command |-> represent_optional(entry.conversion_command),
     metrics |-> [style |-> "flow", text |-> entry.metrics]]

\* yaml.safe_load of one item of the artifacts list
construct_entry(item) ==
    [model_name |-> construct_scalar(item.model_name),
     framework |-> construct_word(item.framework),
     precision |-> construct_scalar(item.precision),
     task |-> construct_word(item.task),
     revision |-> construct_word(item.revision),
     local_path |-> construct_scalar(item.local_path),
     s3_uri |-> construct_scalar(item.s3_uri),
     conversion_command |-> construct_scalar(item.conversion_command),
     metrics |-> item.metrics.text]

\* yaml.safe_dump(self.to_dict(), fh, sort_keys=False): the text of the file
safe_dump(data) ==
    [artifacts |-> [k \in 1..Len(data.artifacts) |-> represent_entry(data.artifacts[k])]]

\* yaml.safe_load(fh)
safe_load(text) ==
    [artifacts |-> [k \in 1..Len(text.artifacts) |-> construct_entry(text.artifacts[k])]]

\* The registry file: state is "absent", "complete" (a finished save),
\* "truncated" (opened for writing, nothing written yet) or "partial"
\* (some of the dump written, the rest missing).
NoFile == [state |-> "absent", data |-> [artifacts |-> <<>>]]

File(state, data) == [state |-> state, data |-> data]

\* a Converter that starts from an empty registry whatever the file holds
from_path_fresh(file) == <<>>

\* from_path when the file's text parses: an absent file and an empty file
\* (yaml.safe_load gives None, `or {}`) both give no artifacts
from_path(file) ==
    IF file.state \in {"absent", "truncated"} THEN <<>>
    ELSE safe_load(file.data).artifacts

\* All outcomes of from_path: a partially written file parses up to its last
\* complete entry, or raises when the text breaks off inside the document
FromPathOutcomes(file) ==
    {[ok |-> TRUE, artifacts |-> from_path(file)]} \cup
    (IF file.state = "partial" THEN {[ok |-> FALSE, artifacts |-> <<>>]} ELSE {})

----------------------------------------------------------------------------
(* String and path helpers *)

RECURSIVE lstrip(_, _)
lstrip(str, ch) ==
    IF str # <<>> /\ Head(str) = ch THEN lstrip(Tail(str), ch) ELSE str

RECURSIVE rstrip(_, _)
rstrip(str, ch) ==
    IF str # <<>> /\ str[Len(str)] = ch
    THEN rstrip(SubSeq(str, 1, Len(str) - 1), ch) ELSE str

strip(str, ch) == rstrip(lstrip(str, ch), ch)

startswith(str, prefix) ==
    /\ Len(str) >= Len(prefix)
    /\ SubSeq(str, 1, Len(prefix)) = prefix

\* str.partition(ch): the parts before and after the first ch
RECURSIVE FirstIndex(_, _, _)
FirstIndex(str, ch, i) ==
    IF i > Len(str) THEN 0
    ELSE IF str[i] = ch THEN i ELSE FirstIndex(str, ch, i + 1)

partition(str, ch) ==
    LET i == FirstIndex(str, ch, 1)
    IN  IF i = 0 THEN <<str, <<>>>>
        ELSE <<SubSeq(str, 1, i - 1), SubSeq(str, i + 1, Len(str))>>

\* pathlib's a / b and the f-string "a/b"
Join(a, b) == a \o <<"/">> \o b

----------------------------------------------------------------------------
(* conversion.py: planning *)

\* a path segment that keeps the separators of the name
_sanitize_kept(name) == name

_sanitize(name) == [i \in 1..Len(name) |-> IF name[i] = "/" THEN "-" ELSE name[i]]

ConversionTask(model, framework, precision, output_dir) ==
    [model |-> model, framework |-> framework, precision |-> precision,
     output_dir |-> output_dir]

\* the inner loop of plan_tasks: one task per framework appended to tasks
RECURSIVE PlanFrameworks(_, _, _, _)
PlanFrameworks(acc, config, model, frameworks) ==
    IF frameworks = <<>> THEN acc
    ELSE LET framework == Head(frameworks)
             model_dir == Join(config.local_cache, _sanitize(model.name))
             framework_dir == Join(Join(model_dir, <<framework>>), config.precision)
         IN  PlanFrameworks(
                 Append(acc, ConversionTask(model, framework, config.precision,
                                            framework_dir)),
                 config, model, Tail(frameworks))

\* the outer loop of plan_tasks
RECURSIVE PlanModels(_, _, _)
PlanModels(acc, config, models) ==
    IF models = <<>> THEN acc
    ELSE PlanModels(PlanFrameworks(acc, config, Head(models), config.frameworks),
                    config, Tail(models))

\* the inner loop with the model fixed last: one task per model
RECURSIVE PlanModelsOf(_, _, _, _)
PlanModelsOf(acc, config, framework, models) ==
    IF models = <<>> THEN acc
    ELSE PlanModelsOf(PlanFrameworks(acc, config, Head(models), <<framework>>),
                      config, framework, Tail(models))

RECURSIVE PlanByFramework(_, _, _)
PlanByFramework(acc, config, frameworks) ==
    IF frameworks = <<>> THEN acc
    ELSE PlanByFramework(PlanModelsOf(acc, config, Head(frameworks), config.models),
                         config, Tail(frameworks))

\* a plan whose loops are nested the other way round
plan_tasks_by_framework(config) == PlanByFramework(<<>>, config, config.frameworks)

plan_tasks(config) == PlanModels(<<>>, config, config.models)

\* a prefix that keeps the scheme marker of the base location
_make_model_bucket_prefix_kept(config, task) ==
    Join(Join(Join(strip(config.model_bucket, "/"), _sanitize(task.model.name)),
              <<task.framework>>), task.precision)

_make_model_bucket_prefix(config, task) ==
    LET sanitized == _sanitize(task.model.name)
        prefix == Join(Join(Join(strip(config.model_bucket, "/"), sanitized),
                            <<task.framework>>), task.precision)
    IN  IF startswith(prefix, S3Scheme)
        THEN SubSeq(prefix, Len(S3Scheme) + 1, Len(prefix))
        ELSE prefix

----------------------------------------------------------------------------
(* s3_utils.py: upload_directory *)

\* the key of one file of local_dir under bucket_uri
UploadKey(bucket_uri, relative) ==
    LET prefix == partition(bucket_uri, "/")[2]
    IN  IF prefix # <<>> THEN Join(rstrip(prefix, "/"), relative) ELSE relative

\* Path.is_dir of an entry that rglob yields
is_dir(f) == f.kind = "dir"

\* an upload that puts an object for every entry that rglob yields
UploadObjectsAll(files, bucket_uri) ==
    { [bucket |-> partition(bucket_uri, "/")[1],
       key |-> UploadKey(bucket_uri, f.name),
       body |-> f] : f \in files }

\* the objects upload_directory puts for the entries of local_dir: one
\* upload_file call per entry that is not a directory
UploadObjects(files, bucket_uri) ==
    { [bucket |-> partition(bucket_uri, "/")[1],
       key |-> UploadKey(bucket_uri, f.name),
       body |-> f] : f \in { g \in files : ~is_dir(g) } }

\* the value upload_directory returns
upload_directory(bucket_uri) ==
    LET bucket == partition(bucket_uri, "/")[1]
        prefix == partition(bucket_uri, "/")[2]
    IN  rstrip(S3Scheme \o bucket \o <<"/">> \o
               (IF prefix # <<>> THEN rstrip(prefix, "/") ELSE <<>>), "/")

\* client.upload_file replaces an object of the same key
PutObjects(store, objs) ==
    { o \in store : ~\E n \in objs : n.bucket = o.bucket /\ n.key = o.key } \cup objs

----------------------------------------------------------------------------
(* The local file system *)

AbsentDir == [exists |-> FALSE, files |-> {}]

EmptyDir == [exists |-> TRUE, files |-> {}]

Sentinel == [name |-> <<"sentinel">>, kind |-> "sentinel", model |-> <<>>, framework |-> ""]

\* what a converter writes into output_dir when it returns normally
Output(task) ==
    [name |-> <<"model">>, kind |-> "out", model |-> task.model.name,
     framework |-> task.framework]

\* what a converter may leave behind when it fails
Partial(task) ==
    [name |-> <<"model">>, kind |-> "partial", model |-> task.model.name,
     framework |-> task.framework]

WriteFile(dir, f) ==
    [exists |-> TRUE, files |-> { g \in dir.files : g.name # f.name } \cup {f}]

OutputDirs ==
    { Join(Join(Join(LocalCache, _sanitize(n)), <<fw>>), Precision) :
        n \in ModelNames, fw \in JobFrameworks }

rmtree(tree, d) == [tree EXCEPT ![d] = AbsentDir]

mkdir(tree, d) == IF tree[d].exists THEN tree ELSE [tree EXCEPT ![d] = EmptyDir]

----------------------------------------------------------------------------
(* conversion.py: Converter.run, one action per step of the loop body *)

Ev(e, i) == [ev |-> e, task |-> i]

\* how a process ended: where it stopped, what it left, its last event and
\* whether it called a converter
Ended ==
    [status |-> status, pc |-> pc, idx |-> idx, registry |-> registry, disk |-> disk,
     last |-> IF log = <<>> THEN Ev("none", 0) ELSE log[Len(log)],
     converted |-> \E i \in 1..Len(log) : log[i].ev = "convert"]

\* the frameworks argument of registry.filter: None, or a collection of names
NoFrameworks == [is_none |-> TRUE, names |-> {}]

\* no call of registry.filter yet
NoResult == [called |-> FALSE, frameworks |-> NoFrameworks, of |-> <<>>, value |-> <<>>]

\* no save completed yet
NoSave == [valid |-> FALSE, artifacts |-> <<>>]

NoPrev ==
    [status |-> "idle", pc |-> "start", idx |-> 0, registry |-> <<>>,
     disk |-> NoFile, last |-> Ev("none", 0), converted |-> FALSE]

SentinelDir == [exists |-> TRUE, files |-> {Sentinel}]

Init ==
    /\ job \in Jobs
    /\ upload \in BOOLEAN
    /\ registry = <<>>
    /\ disk = NoFile
    /\ fs \in [OutputDirs -> {AbsentDir, SentinelDir}]
    /\ \A d \in OutputDirs :
          fs[d].exists => \E i \in 1..Len(plan_tasks(job)) : plan_tasks(job)[i].output_dir = d
    /\ cache_base = (\E d \in OutputDirs : fs[d].exists)
    /\ s3 = {}
    /\ status = "idle"
    /\ pc = "start"
    /\ tasks = <<>>
    /\ idx = 0
    /\ s3_uri = None
    /\ run = 0
    /\ log = <<>>
    /\ prev = NoPrev
    /\ upserted = <<>>
    /\ ops = 0
    /\ result = NoResult
    /\ saved = NoSave

Running(at) == status = "running" /\ pc = at

hist == <<upserted, ops, result, saved>>

\* `continue` and the end of the loop body: the next task, or the end of run
\* a loop that leaves out the task after the current one
AdvanceTwo ==
    /\ idx' = idx + 2
    /\ pc' = IF idx + 2 > Len(tasks) THEN "end" ELSE "find"
    /\ status' = IF idx + 2 > Len(tasks) THEN "done" ELSE "running"

Advance ==
    /\ idx' = idx + 1
    /\ pc' = IF idx + 1 > Len(tasks) THEN "end" ELSE "find"
    /\ status' = IF idx + 1 > Len(tasks) THEN "done" ELSE "running"

\* a skip that tests the overwrite flag the wrong way round
ShouldSkipInverted(registry_entry, overwrite) == registry_entry # NoEntry /\ overwrite

\* the condition of the `continue` of run
\* a run that never skips
ShouldSkipNever(registry_entry, overwrite) == FALSE

ShouldSkip(registry_entry, overwrite) == registry_entry # NoEntry /\ ~overwrite

\* a run that never removes the previous conversion
ShouldPurgeNever(dir_exists, overwrite) == FALSE

\* the condition of the rmtree of run
ShouldPurge(dir_exists, overwrite) == dir_exists /\ overwrite

\* convert_models: a fresh process builds the Converter (loading the registry)
\* and enters run (planning, creating the cache directory)
\* a start whose load raises when the registry file does not exist
StartRunStrict ==
    /\ status \in {"idle", "done", "failed", "crashed"}
    /\ run < MaxRuns
    /\ disk.state # "partial"
    /\ run' = run + 1
    /\ prev' = Ended
    /\ registry' = from_path(disk)
    /\ tasks' = IF disk.state = "absent" THEN <<>> ELSE plan_tasks(job)
    /\ idx' = IF disk.state = "absent" THEN 0 ELSE 1
    /\ pc' = IF disk.state = "absent" THEN "load"
             ELSE IF Len(tasks') = 0 THEN "end" ELSE "find"
    /\ status' = IF disk.state = "absent" THEN "failed"
                 ELSE IF Len(tasks') = 0 THEN "done" ELSE "running"
    /\ log' = <<>>
    /\ s3_uri' = None
    /\ UNCHANGED <<job, upload, disk, fs, cache_base, s3, hist>>

StartRun ==
    /\ status \in {"idle", "done", "failed", "crashed"}
    /\ run < MaxRuns
    /\ disk.state # "partial"
    /\ run' = run + 1
    /\ prev' = Ended
    /\ registry' = from_path(disk)
    /\ tasks' = plan_tasks(job)
    /\ cache_base' = TRUE
    /\ idx' = 1
    /\ pc' = IF Len(tasks') = 0 THEN "end" ELSE "find"
    /\ status' = IF Len(tasks') = 0 THEN "done" ELSE "running"
    /\ log' = <<>>
    /\ s3_uri' = None
    /\ UNCHANGED <<job, upload, disk, fs, s3, hist>>

\* the same on a registry file that a save left partially written
StartRunPartial ==
    /\ status \in {"idle", "done", "failed", "crashed"}
    /\ run < MaxRuns
    /\ disk.state = "partial"
    /\ run' = run + 1
    /\ prev' = Ended
    /\ \E r \in FromPathOutcomes(disk) :
        /\ registry' = r.artifacts
        /\ tasks' = IF r.ok THEN plan_tasks(job) ELSE <<>>
        /\ cache_base' = (r.ok \/ cache_base)
        /\ idx' = IF r.ok THEN 1 ELSE 0
        /\ pc' = IF ~r.ok THEN "load" ELSE IF Len(tasks') = 0 THEN "end" ELSE "find"
        /\ status' = IF ~r.ok THEN "failed"
                     ELSE IF Len(tasks') = 0 THEN "done" ELSE "running"
    /\ log' = <<>>
    /\ s3_uri' = None
    /\ UNCHANGED <<job, upload, disk, fs, s3, hist>>

\* the events of registry.find for task i: the call and what it returned
FindLog(registry_entry, i) ==
    <<Ev("find", i), Ev(IF registry_entry # NoEntry THEN "hit" ELSE "miss", i)>>

\* registry.find and the skip: `continue`
LookupSkip ==
    /\ Running("find")
    /\ LET task == tasks[idx]
           registry_entry == find(registry, task.model.name, task.framework, task.precision)
       IN  /\ ShouldSkip(registry_entry, job.overwrite)
           /\ log' = Append(log \o FindLog(registry_entry, idx), Ev("skip", idx))
    /\ Advance
    /\ UNCHANGED <<job, upload, registry, disk, fs, cache_base, s3, tasks, s3_uri,
                   run, prev, hist>>

\* what run does to output_dir before the converter is looked up:
\* rmtree under overwrite, then mkdir(parents=True, exist_ok=True)
Prepared(tree, d, overwrite) ==
    mkdir(IF ShouldPurge(tree[d].exists, overwrite) THEN rmtree(tree, d) ELSE tree, d)

PrepareLog(tree, d, overwrite, i) ==
    (IF ShouldPurge(tree[d].exists, overwrite) THEN <<Ev("rmtree", i)>> ELSE <<>>)
        \o <<Ev("mkdir", i)>>

\* registry.find without a skip, the directory is prepared, converter(task) is called
LookupConvert ==
    /\ Running("find")
    /\ LET task == tasks[idx]
           registry_entry == find(registry, task.model.name, task.framework, task.precision)
       IN  /\ ~ShouldSkip(registry_entry, job.overwrite)
           /\ task.framework \in _CONVERTERS
           /\ fs' = Prepared(fs, task.output_dir, job.overwrite)
           /\ log' = Append(log \o FindLog(registry_entry, idx)
                                \o PrepareLog(fs, task.output_dir, job.overwrite, idx),
                            Ev("convert", idx))
    /\ pc' = "converting"
    /\ UNCHANGED <<job, upload, registry, disk, cache_base, s3, status, tasks, idx,
                   s3_uri, run, prev, hist>>

\* the same up to _CONVERTERS.get, which gives None: ValueError
LookupUnsupported ==
    /\ Running("find")
    /\ LET task == tasks[idx]
           registry_entry == find(registry, task.model.name, task.framework, task.precision)
       IN  /\ ~ShouldSkip(registry_entry, job.overwrite)
           /\ task.framework \notin _CONVERTERS
           /\ fs' = Prepared(fs, task.output_dir, job.overwrite)
           /\ log' = Append(log \o FindLog(registry_entry, idx)
                                \o PrepareLog(fs, task.output_dir, job.overwrite, idx),
                            Ev("unsupported", idx))
    /\ pc' = "convert"
    /\ status' = "failed"
    /\ UNCHANGED <<job, upload, registry, disk, cache_base, s3, tasks, idx,
                   s3_uri, run, prev, hist>>

\* the external tool returns normally
\* a converter return after which run goes to the upsert without publishing
ConvertOkUnpublished ==
    /\ Running("converting")
    /\ LET d == tasks[idx].output_dir
       IN  fs' = [fs EXCEPT ![d] = WriteFile(fs[d], Output(tasks[idx]))]
    /\ log' = Append(log, Ev("converted", idx))
    /\ s3_uri' = None
    /\ pc' = "upsert"
    /\ UNCHANGED <<job, upload, registry, disk, cache_base, s3, status, tasks, idx,
                   run, prev, hist>>

\* a converter return after which run publishes whatever the upload flag is
ConvertOkPublished ==
    /\ Running("converting")
    /\ LET d == tasks[idx].output_dir
       IN  fs' = [fs EXCEPT ![d] = WriteFile(fs[d], Output(tasks[idx]))]
    /\ log' = Append(log, Ev("converted", idx))
    /\ s3_uri' = None
    /\ pc' = "upload"
    /\ UNCHANGED <<job, upload, registry, disk, cache_base, s3, status, tasks, idx,
                   run, prev, hist>>

ConvertOk ==
    /\ Running("converting")
    /\ LET d == tasks[idx].output_dir
       IN  fs' = [fs EXCEPT ![d] = WriteFile(fs[d], Output(tasks[idx]))]
    /\ log' = Append(log, Ev("converted", idx))
    /\ s3_uri' = None
    /\ pc' = IF upload THEN "upload" ELSE "upsert"
    /\ UNCHANGED <<job, upload, registry, disk, cache_base, s3, status, tasks, idx,
                   run, prev, hist>>

\* what an interrupted or failing converter leaves in output_dir
Leftovers(tree, task) ==
    {tree, [tree EXCEPT ![task.output_dir] = WriteFile(tree[task.output_dir], Partial(task))]}

\* a run that logs the converter's failure and goes on with the next task
ConvertFailSwallowed ==
    /\ Running("converting")
    /\ fs' \in Leftovers(fs, tasks[idx])
    /\ log' = Append(log, Ev("convert_failed", idx))
    /\ Advance
    /\ UNCHANGED <<job, upload, registry, disk, cache_base, s3, tasks,
                   s3_uri, run, prev, hist>>

\* the external tool fails: CalledProcessError (check=True) or a download error
ConvertFail ==
    /\ Running("converting")
    /\ fs' \in Leftovers(fs, tasks[idx])
    /\ log' = Append(log, Ev("convert_failed", idx))
    /\ status' = "failed"
    /\ UNCHANGED <<job, upload, registry, disk, cache_base, s3, pc, tasks, idx,
                   s3_uri, run, prev, hist>>

\* upload_directory returns the location of the uploaded prefix
UploadOk ==
    /\ Running("upload")
    /\ LET task == tasks[idx]
           bucket_uri == _make_model_bucket_prefix(job, task)
       IN  /\ fs[task.output_dir].exists
           /\ s3' = PutObjects(s3, UploadObjects(fs[task.output_dir].files, bucket_uri))
           /\ s3_uri' = upload_directory(bucket_uri)
    /\ log' = log \o <<Ev("upload", idx), Ev("uploaded", idx)>>
    /\ pc' = "upsert"
    /\ UNCHANGED <<job, upload, registry, disk, fs, cache_base, status, tasks, idx,
                   run, prev, hist>>

\* client.upload_file raises after some of the files were put
UploadFail ==
    /\ Running("upload")
    /\ LET task == tasks[idx]
           bucket_uri == _make_model_bucket_prefix(job, task)
           files == fs[task.output_dir].files
       IN  \E done \in SUBSET files :
              /\ done # files
              /\ s3' = PutObjects(s3, UploadObjects(done, bucket_uri))
    /\ log' = log \o <<Ev("upload", idx), Ev("upload_failed", idx)>>
    /\ status' = "failed"
    /\ UNCHANGED <<job, upload, registry, disk, fs, cache_base, pc, tasks, idx,
                   s3_uri, run, prev, hist>>

\* the RegistryEntry that run builds for a task
EntryOf(task, uri) ==
    RegistryEntry(task.model.name, task.framework, task.precision, task.model.task,
                  task.model.revision, task.output_dir, uri)

\* registry.upsert(registry_entry)
UpsertEntry ==
    /\ Running("upsert")
    /\ registry' = upsert(registry, EntryOf(tasks[idx], s3_uri))
    /\ log' = Append(log, Ev("upsert", idx))
    /\ pc' = "save"
    /\ UNCHANGED <<job, upload, disk, fs, cache_base, s3, status, tasks, idx,
                   s3_uri, run, prev, hist>>

\* registry.save: open(path, "w") truncates the file in place
SaveOpen ==
    /\ Running("save")
    /\ disk' = File("truncated", [artifacts |-> <<>>])
    /\ log' = Append(log, Ev("save", idx))
    /\ pc' = "dump"
    /\ UNCHANGED <<job, upload, registry, fs, cache_base, s3, status, tasks, idx,
                   s3_uri, run, prev, hist>>

\* registry.save: mkdir or open raises (OSError)
SaveOpenFail ==
    /\ Running("save")
    /\ log' = log \o <<Ev("save", idx), Ev("save_failed", idx)>>
    /\ status' = "failed"
    /\ UNCHANGED <<job, upload, registry, disk, fs, cache_base, s3, pc, tasks, idx,
                   s3_uri, run, prev, hist>>

\* registry.save: some of yaml.safe_dump's output reaches the file
SaveDumpPartial ==
    /\ Running("dump")
    /\ disk.state = "truncated"
    /\ \E k \in 0..(Len(registry) - 1) :
          disk' = File("partial", [artifacts |-> SubSeq(safe_dump(to_dict(registry)).artifacts, 1, k)])
    /\ UNCHANGED <<job, upload, registry, fs, cache_base, s3, status, pc, tasks, idx,
                   s3_uri, run, log, prev, hist>>

\* registry.save: the dump is complete and the file is closed
SaveDump ==
    /\ Running("dump")
    /\ disk' = File("complete", safe_dump(to_dict(registry)))
    /\ log' = Append(log, Ev("saved", idx))
    /\ Advance
    /\ UNCHANGED <<job, upload, registry, fs, cache_base, s3, tasks, s3_uri,
                   run, prev, hist>>

\* a run that catches the error of save and goes on with the next task
SaveDumpFailIgnored ==
    /\ Running("dump")
    /\ log' = Append(log, Ev("save_failed", idx))
    /\ Advance
    /\ UNCHANGED <<job, upload, registry, disk, fs, cache_base, s3, tasks,
                   s3_uri, run, prev, hist>>

\* registry.save: a write raises (OSError), the file stays as far as it got
SaveDumpFail ==
    /\ Running("dump")
    /\ log' = Append(log, Ev("save_failed", idx))
    /\ status' = "failed"
    /\ UNCHANGED <<job, upload, registry, disk, fs, cache_base, s3, pc, tasks, idx,
                   s3_uri, run, prev, hist>>

\* the process is killed; a converter that was running may leave files behind
Crash ==
    /\ status = "running"
    /\ status' = "crashed"
    /\ fs' \in (IF pc = "converting" THEN Leftovers(fs, tasks[idx]) ELSE {fs})
    /\ UNCHANGED <<job, upload, registry, disk, cache_base, s3, pc, tasks, idx,
                   s3_uri, run, log, prev, hist>>

Next ==
    \/ StartRun
    \/ StartRunPartial
    \/ LookupSkip
    \/ LookupConvert
    \/ LookupUnsupported
    \/ ConvertOk
    \/ ConvertFail
    \/ UploadOk
    \/ UploadFail
    \/ UpsertEntry
    \/ SaveOpen
    \/ SaveOpenFail
    \/ SaveDumpPartial
    \/ SaveDump
    \/ SaveDumpFail
    \/ Crash

Spec == Init /\ [][Next]_vars

----------------------------------------------------------------------------
(* ModelRegistry on its own: any caller applying from_path, upsert and save *)

RegFrameworks == {"onnx-runtime", "openvino"}

RegEntries ==
    { RegistryEntry(n, fw, Precision, "cls", "main",
                    Join(Join(Join(LocalCache, _sanitize(n)), <<fw>>), Precision), uri) :
        n \in ModelNames, fw \in RegFrameworks,
        uri \in {None, S3Scheme \o <<"bkt">>} }

\* the registry files a caller may find: absent, or any list of entries
PersistedForms ==
    {NoFile} \cup
    { File("complete", safe_dump([artifacts |-> a])) :
        a \in {<<>>} \cup SeqsUpTo(RegEntries, MaxFileLen) }

NoJob ==
    [models |-> <<>>, frameworks |-> <<>>, precision |-> Precision,
     overwrite |-> FALSE, local_cache |-> LocalCache, model_bucket |-> ModelBucket]

RegInitWith(file) ==
    /\ job = NoJob
    /\ upload = FALSE
    /\ registry = <<>>
    /\ disk = file
    /\ fs = [d \in OutputDirs |-> AbsentDir]
    /\ cache_base = FALSE
    /\ s3 = {}
    /\ status = "idle"
    /\ pc = "start"
    /\ tasks = <<>>
    /\ idx = 0
    /\ s3_uri = None
    /\ run = 0
    /\ log = <<>>
    /\ prev = NoPrev
    /\ upserted = <<>>
    /\ ops = 0
    /\ result = NoResult
    /\ saved = NoSave

RegFrame == <<job, upload, fs, cache_base, s3, status, pc, tasks, idx, s3_uri, run,
              log, prev, result>>

\* registry.upsert(entry)
RegUpsert ==
    /\ ops < MaxOps
    /\ \E entry \in RegEntries :
        /\ registry' = upsert(registry, entry)
        /\ upserted' = Append(upserted, entry)
    /\ ops' = ops + 1
    /\ UNCHANGED <<disk, saved, RegFrame>>

\* registry = ModelRegistry.from_path(path)
RegLoad ==
    /\ ops < MaxOps
    /\ registry' = from_path(disk)
    /\ upserted' = <<>>
    /\ ops' = ops + 1
    /\ UNCHANGED <<disk, saved, RegFrame>>

\* registry.save(path), run to completion
RegSave ==
    /\ ops < MaxOps
    /\ disk' = File("complete", safe_dump(to_dict(registry)))
    /\ saved' = [valid |-> TRUE, artifacts |-> registry]
    /\ ops' = ops + 1
    /\ UNCHANGED <<registry, upserted, RegFrame>>

\* upserts applied to an empty registry
SpecUpsert == RegInitWith(NoFile) /\ [][RegUpsert]_vars

\* from_path on any persisted form, then upserts, saves and reloads
SpecLoad ==
    (\E file \in PersistedForms : RegInitWith(file))
        /\ [][RegLoad \/ RegUpsert \/ RegSave]_vars

----------------------------------------------------------------------------
(* Properties of the registry *)


NoDuplicates(artifacts) ==
    \A i, j \in 1..Len(artifacts) :
        Triple(artifacts[i]) = Triple(artifacts[j]) => i = j

\* the last entry of a history of upserts that has the triple of entry
LastUpserted(history, entry) ==
    LET same == { i \in 1..Len(history) : Triple(history[i]) = Triple(entry) }
    IN  history[CHOOSE i \in same : \A j \in same : j <= i]

\* C2: after any sequence of upserts applied to an empty registry, no two
\* entries of the registry have the same (model_name, framework, precision),
\* and find on an upserted triple returns the most recently upserted entry
\* of that triple.
C2_DedupInvariant ==
    /\ NoDuplicates(registry)
    /\ \A i \in 1..Len(upserted) :
          find(registry, upserted[i].model_name, upserted[i].framework,
               upserted[i].precision) = LastUpserted(upserted, upserted[i])

\* a triple was upserted twice with different entries and replaced
C2_Witness ==
    /\ Len(registry) < Len(upserted)
    /\ \E i, j \in 1..Len(upserted) :
          /\ i < j
          /\ Triple(upserted[i]) = Triple(upserted[j])
          /\ upserted[i] # upserted[j]

\* C3: in every state of a registry that was loaded from any persisted form
\* and then upserted to and saved, no two entries have the same triple.
C3_UniqueAtAnyTime == NoDuplicates(registry)

----------------------------------------------------------------------------
(* Properties of Converter.run *)

Happened(e, i) == \E n \in 1..Len(log) : log[n] = Ev(e, i)

Events(e) == { n \in 1..Len(log) : log[n].ev = e }

TaskTriple(task) == <<task.model.name, task.framework, task.precision>>

Registered(artifacts, task) ==
    find(artifacts, task.model.name, task.framework, task.precision) # NoEntry

\* the process runs (or has ended) after an earlier process ran to the end of run
AfterCompletedRun == status # "idle" /\ prev.status = "done"

\* C1: in a run of the job with overwrite=false that follows a run that
\* completed, no directory is touched, no converter is invoked, nothing is
\* uploaded, upserted or saved, and the in-memory and the persisted registry
\* stay what the completed run left.
C1_Idempotent ==
    (AfterCompletedRun /\ ~job.overwrite) =>
        /\ \A n \in 1..Len(log) : log[n].ev \in {"find", "hit", "skip"}
        /\ registry = prev.registry
        /\ disk = prev.disk

\* a second run ended after skipping every task that the first run converted
C1_Witness ==
    /\ AfterCompletedRun
    /\ ~job.overwrite
    /\ status = "done"
    /\ prev.converted
    /\ Len(tasks) >= 2
    /\ \A i \in 1..Len(tasks) : Happened("skip", i)

\* the previous process was killed at a task boundary: task k = prev.idx - 1
\* had been saved and the lookup of task k + 1 had not started
CrashedAfterTask ==
    /\ status # "idle"
    /\ prev.status = "crashed"
    /\ prev.pc = "find"
    /\ prev.idx >= 2
    /\ prev.last = Ev("saved", prev.idx - 1)

\* C4 as stated: after a crash at the boundary behind task k, the restarted
\* run invokes no converter for tasks 1..k and its first converter invocation
\* is for task k + 1.
C4_ResumeAsStated ==
    CrashedAfterTask =>
        /\ \A n \in Events("convert") : log[n].task >= prev.idx
        /\ \A n \in Events("convert") :
              (\A m \in Events("convert") : n <= m) => log[n].task = prev.idx

\* C4 amended: with overwrite=false, after a crash at the boundary behind
\* task k the restarted run invokes no converter for tasks 1..k, and its first
\* converter invocation is for the first task after k whose triple the saved
\* registry does not hold.
C4_Resume ==
    (CrashedAfterTask /\ ~job.overwrite) =>
        /\ \A n \in Events("convert") : log[n].task >= prev.idx
        /\ \A n \in Events("convert") :
              (\A m \in Events("convert") : n <= m) =>
                  /\ ~Registered(from_path(prev.disk), tasks[log[n].task])
                  /\ \A j \in prev.idx..(log[n].task - 1) :
                        Registered(from_path(prev.disk), tasks[j])

\* the restarted run skipped tasks 1..k and called the converter for task k + 1
C4_Witness ==
    /\ CrashedAfterTask
    /\ ~job.overwrite
    /\ \A j \in 1..(prev.idx - 1) : Happened("skip", j)
    /\ Happened("convert", prev.idx)

\* the events of a task that would be a side effect of running it
SideEffects ==
    {"rmtree", "mkdir", "convert", "upload", "upsert", "save", "saved"}

\* C5: a planned task is skipped, with no directory removal or creation, no
\* converter invocation, no upload, no upsert and no save, exactly when find
\* returned an entry and overwrite is false; in every other case the
\* converter of the task's framework is invoked.
C5_SkipRule ==
    \A i \in 1..Len(tasks) :
        (Happened("hit", i) \/ Happened("miss", i)) =>
            /\ Happened("skip", i) <=> (Happened("hit", i) /\ ~job.overwrite)
            /\ Happened("skip", i) => \A e \in SideEffects : ~Happened(e, i)
            /\ ~Happened("skip", i) => Happened("convert", i)

\* C6: with overwrite=true nothing that was in the task's output directory
\* before the task ran is there when the converter is invoked (the directory
\* is empty) nor while and when the task completes (it holds the converter's
\* output only).
C6_OverwritePurges ==
    job.overwrite =>
        /\ Running("converting") => fs[tasks[idx].output_dir] = EmptyDir
        /\ (status = "running" /\ pc \in {"upload", "upsert", "save", "dump"}) =>
              fs[tasks[idx].output_dir].files = {Output(tasks[idx])}
        /\ (log # <<>> /\ log[Len(log)].ev = "saved") =>
              LET task == tasks[log[Len(log)].task]
              IN  fs[task.output_dir].files = {Output(task)}

\* the first run found a directory with the sentinel, removed it and completed
\* the task
C6_Witness ==
    /\ job.overwrite
    /\ run = 1
    /\ log # <<>>
    /\ log[Len(log)].ev = "saved"
    /\ Happened("rmtree", log[Len(log)].task)
    /\ Sentinel \notin fs[tasks[log[Len(log)].task].output_dir].files

\* C7: when the converter fails for task i the run has failed, nothing
\* happens after the failure and nothing for a later task, task i is not
\* upserted, and the persisted registry is the in-memory one with the entries
\* of the tasks saved before i.
C7_FailFast ==
    \A n \in Events("convert_failed") :
        LET i == log[n].task
        IN  /\ status = "failed"
            /\ n = Len(log)
            /\ \A m \in 1..Len(log) : log[m].task <= i
            /\ ~Happened("upsert", i)
            /\ from_path(disk) = registry
            /\ \A j \in 1..(i - 1) :
                  Happened("saved", j) =>
                      \E k \in 1..Len(from_path(disk)) :
                          /\ Triple(from_path(disk)[k]) = TaskTriple(tasks[j])
                          /\ from_path(disk)[k].local_path = tasks[j].output_dir

\* a converter failed for a task behind one that was converted and saved
C7_Witness ==
    /\ status = "failed"
    /\ \E n \in Events("convert_failed") :
          /\ log[n].task >= 2
          /\ Happened("saved", log[n].task - 1)
          /\ log[n].task < Len(tasks)

\* C8: at every task boundary and at the end of a run the persisted registry
\* equals the in-memory one; whenever the two differ the process is between
\* a task's upsert and the end of its save and they differ by that task's
\* entry only.
C8_SavedAtBoundaries ==
    /\ (Running("find") \/ status = "done") => from_path(disk) = registry
    /\ (pc # "load" /\ from_path(disk) # registry) =>
          /\ pc \in {"save", "dump"}
          /\ registry = upsert(from_path(disk), EntryOf(tasks[idx], s3_uri))

\* C9: whoever reads the registry file, at any time, finds no file or a
\* completely written registry, never an empty or partially written file.
C9_AtomicSave == disk.state \in {"absent", "complete"}

\* C10: when the upload fails behind a successful conversion, the run still
\* leaves the task's entry, with no remote location, in the persisted
\* registry, and the output directory with the converter's output.
C10_PublishFailureKeepsEntry ==
    \A n \in Events("upload_failed") :
        LET task == tasks[log[n].task]
        IN  /\ fs[task.output_dir].exists
            /\ Output(task) \in fs[task.output_dir].files
            /\ \E k \in 1..Len(from_path(disk)) :
                  from_path(disk)[k] = EntryOf(task, None)

\* the job names a framework that has no converter
UnknownFramework ==
    \E i \in 1..Len(job.frameworks) : job.frameworks[i] \notin _CONVERTERS

\* C11: a run of a job that names a framework without a converter has no
\* effect of any task (no directory removed or created, no converter invoked,
\* nothing uploaded, upserted or saved) and does not run to completion,
\* wherever the unknown framework stands in plan order.
C11_ConfigErrorBeforeAnyTask ==
    (UnknownFramework /\ status # "idle") =>
        /\ \A n \in 1..Len(log) : log[n].ev \notin SideEffects
        /\ status # "done"

\* C12: when save fails behind a task's upsert the run has failed there,
\* nothing happens after the failure and nothing for a later task; a run
\* never reaches a task's lookup with an in-memory registry that differs from
\* the persisted one.
C12_NoUnpersistedMutation ==
    /\ \A n \in Events("save_failed") :
          /\ status = "failed"
          /\ n = Len(log)
          /\ \A m \in 1..Len(log) : log[m].task <= log[n].task
    /\ Running("find") => from_path(disk) = registry

\* save failed for a task that is not the last one, leaving an entry in
\* memory that the file does not hold
C12_Witness ==
    /\ status = "failed"
    /\ log # <<>>
    /\ log[Len(log)].ev = "save_failed"
    /\ log[Len(log)].task < Len(tasks)
    /\ Happened("upsert", log[Len(log)].task)
    /\ from_path(disk) # registry

----------------------------------------------------------------------------
(* conversion.py: Converter.plan_tasks called on its own *)

MaxPlanLen == 2

\* jobs of up to MaxPlanLen models and MaxPlanLen frameworks
PlanJobs ==
    { [models |-> ms, frameworks |-> fws, precision |-> Precision,
       overwrite |-> ow, local_cache |-> LocalCache, model_bucket |-> ModelBucket] :
        ms \in SeqsUpTo({ModelConfig(n) : n \in ModelNames}, MaxPlanLen),
        fws \in SeqsUpTo(JobFrameworks, MaxPlanLen),
        ow \in BOOLEAN }

\* a converter built on any job, any loaded registry and any local cache
PlanInit ==
    /\ job \in PlanJobs
    /\ upload = FALSE
    /\ registry \in {<<>>} \cup { <<e>> : e \in RegEntries }
    /\ disk = File("complete", safe_dump(to_dict(registry)))
    /\ fs \in [OutputDirs -> {AbsentDir, SentinelDir}]
    /\ cache_base = (\E d \in OutputDirs : fs[d].exists)
    /\ s3 = {}
    /\ status = "idle"
    /\ pc = "start"
    /\ tasks = <<>>
    /\ idx = 0
    /\ s3_uri = None
    /\ run = 0
    /\ log = <<>>
    /\ prev = NoPrev
    /\ upserted = <<>>
    /\ ops = 0
    /\ result = NoResult
    /\ saved = NoSave

\* tasks = converter.plan_tasks()
PlanCall ==
    /\ ops < MaxOps
    /\ tasks' = plan_tasks(job)
    /\ ops' = ops + 1
    /\ UNCHANGED <<job, upload, registry, disk, fs, cache_base, s3, status, pc, idx,
                   s3_uri, run, log, prev, upserted, result, saved>>

SpecPlan == PlanInit /\ [][PlanCall]_vars

\* C13: plan_tasks returns one task per (model, framework) pair, models in
\* configuration order and, inside a model, frameworks in configuration order,
\* whatever the registry and the local cache hold; a repeated call on the
\* same configuration returns the same tasks
PlanAsConfigured ==
    LET M == Len(job.models)
        F == Len(job.frameworks)
    IN  /\ Len(tasks) = M * F
        /\ \A m \in 1..M : \A f \in 1..F :
              LET t == tasks[(m - 1) * F + f]
              IN  /\ t.model = job.models[m]
                  /\ t.framework = job.frameworks[f]
                  /\ t.precision = job.precision

C13_PlanOrder ==
    /\ [](ops >= 1 => PlanAsConfigured)
    /\ [][ops >= 1 => tasks' = tasks]_vars

C13_Witness ==
    /\ ops >= 2
    /\ Len(job.models) = 2
    /\ Len(job.frameworks) = 2
    /\ job.models[1] # job.models[2]
    /\ job.frameworks[1] # job.frameworks[2]
    /\ registry # <<>>
    /\ \E d \in OutputDirs : fs[d].exists
    /\ Len(tasks) = 4

\* seg is name with every "/" replaced by "-" and nothing else changed
Sanitized(seg, name) ==
    /\ Len(seg) = Len(name)
    /\ \A k \in 1..Len(name) :
          seg[k] = IF name[k] = "/" THEN "-" ELSE name[k]

\* the output directory is cache_root / sanitize(model name) / framework / precision
DirAsSpecified(task) ==
    LET root == job.local_cache
        seg == SubSeq(task.output_dir, Len(root) + 2,
                      Len(root) + 1 + Len(task.model.name))
    IN  /\ Sanitized(seg, task.model.name)
        /\ task.output_dir =
              root \o <<"/">> \o seg \o <<"/", task.framework, "/">> \o task.precision

\* a run of a one-model, one-framework job that started from no registry ended
SingleTaskRunDone ==
    /\ run = 1
    /\ status = "done"
    /\ Len(job.models) = 1
    /\ Len(job.frameworks) = 1

\* C14: every planned task's output directory is
\* cache_root/sanitize(model name)/framework/precision, "o/m" being sanitized
\* to "o-m"; after a successful run from an empty registry of a job of one
\* model and one framework the registry, in memory and on disk, holds exactly
\* one entry, of that task's triple, whose local_path is the task's
\* output directory.
C14_OutputPath ==
    /\ _sanitize(<<"o", "/", "m">>) = <<"o", "-", "m">>
    /\ \A i \in 1..Len(tasks) : DirAsSpecified(tasks[i])
    /\ SingleTaskRunDone =>
          /\ Len(registry) = 1
          /\ Triple(registry[1]) = TaskTriple(tasks[1])
          /\ registry[1].local_path = tasks[1].output_dir
          /\ from_path(disk) = registry

C14_Witness ==
    /\ SingleTaskRunDone
    /\ job.models[1].name = <<"o", "/", "m">>
    /\ Len(registry) = 1
    /\ registry[1].local_path = <<"cache", "/", "o", "-", "m", "/", "onnx-runtime", "/", "fp32">>

\* the process loaded its registry from a path that did not exist
LoadedAbsent == status # "idle" /\ prev.disk.state = "absent"

\* C15 as stated: from_path on a path that does not exist raises no error and
\* returns an empty registry, and the run that follows skips no task.
C15_NoTaskSkipped ==
    LoadedAbsent =>
        /\ pc # "load"
        /\ (Running("find") /\ idx = 1) => registry = <<>>
        /\ Events("skip") = {}

\* C15 amended: from_path on a path that does not exist raises no error and
\* returns an empty registry, and the run that follows skips a task only when
\* the same run has already upserted an entry of that task's triple.
C15_AbsentLoad ==
    LoadedAbsent =>
        /\ pc # "load"
        /\ (Running("find") /\ idx = 1) => registry = <<>>
        /\ \A n \in Events("skip") :
              \E m \in 1..(n - 1) :
                  /\ log[m].ev = "upsert"
                  /\ TaskTriple(tasks[log[m].task]) = TaskTriple(tasks[log[n].task])

\* a first run converted a task and then skipped a repetition of its pair
C15_Witness ==
    /\ LoadedAbsent
    /\ run = 1
    /\ status = "done"
    /\ Events("convert") # {}
    /\ Events("skip") # {}

----------------------------------------------------------------------------
(* s3_utils.py: upload_directory as Converter.run calls it, on any base
   location and any content of the output directory *)

\* a base location: a bucket, with or without a nested prefix, the "s3://"
\* marker and a trailing separator
BaseParts ==
    [scheme : BOOLEAN, path : {<<"bkt">>, <<"bkt", "/", "models">>}, slash : BOOLEAN]

BaseText(parts) ==
    (IF parts.scheme THEN S3Scheme ELSE <<>>) \o parts.path
        \o (IF parts.slash THEN <<"/">> ELSE <<>>)

BaseLocations == { BaseText(parts) : parts \in BaseParts }

UploadJobs ==
    { [models |-> <<ModelConfig(n)>>, frameworks |-> <<"onnx-runtime">>,
       precision |-> Precision, overwrite |-> FALSE, local_cache |-> LocalCache,
       model_bucket |-> b] : n \in ModelNames, b \in BaseLocations }

\* a file in a subdirectory of output_dir, and the subdirectory itself
Nested(task) ==
    [name |-> <<"sub", "/", "weights">>, kind |-> "out", model |-> task.model.name,
     framework |-> task.framework]

SubDir == [name |-> <<"sub">>, kind |-> "dir", model |-> <<>>, framework |-> ""]

\* what a converter may leave as output_dir: nothing at all, or a directory
\* of files and subdirectories
LocalDirs(task) ==
    {AbsentDir} \cup
    { [exists |-> TRUE, files |-> F] :
        F \in { G \in SUBSET {Output(task), Nested(task), SubDir} :
                  Nested(task) \in G => SubDir \in G } }

\* run has called the converter of its only task and it has returned
UploadInit ==
    /\ job \in UploadJobs
    /\ upload = TRUE
    /\ registry = <<>>
    /\ disk = NoFile
    /\ tasks = plan_tasks(job)
    /\ \E dir \in LocalDirs(tasks[1]) :
          fs = [d \in OutputDirs |-> IF d = tasks[1].output_dir THEN dir ELSE AbsentDir]
    /\ cache_base = TRUE
    /\ s3 = {}
    /\ status = "running"
    /\ pc = "upload"
    /\ idx = 1
    /\ s3_uri = None
    /\ run = 1
    /\ log = FindLog(NoEntry, 1) \o <<Ev("mkdir", 1), Ev("convert", 1), Ev("converted", 1)>>
    /\ prev = NoPrev
    /\ upserted = <<>>
    /\ ops = 0
    /\ result = NoResult
    /\ saved = NoSave

\* upload_directory on a local_dir that does not exist: FileNotFoundError
UploadMissing ==
    /\ Running("upload")
    /\ ~fs[tasks[idx].output_dir].exists
    /\ log' = log \o <<Ev("upload", idx), Ev("upload_failed", idx)>>
    /\ status' = "failed"
    /\ UNCHANGED <<job, upload, registry, disk, fs, cache_base, s3, pc, tasks, idx,
                   s3_uri, run, prev, hist>>

SpecUpload ==
    UploadInit /\ [][UploadOk \/ UploadFail \/ UploadMissing \/ UpsertEntry]_vars

\* name with every "/" replaced by "-", chunk by chunk
RECURSIVE Dashed(_)
Dashed(name) ==
    IF name = <<>> THEN <<>>
    ELSE <<IF Head(name) = "/" THEN "-" ELSE Head(name)>> \o Dashed(Tail(name))

\* base_location/sanitize(model name)/framework/precision, the base location
\* taken without its scheme marker and trailing separator
RemotePrefix(parts, task) ==
    parts.path \o <<"/">> \o Dashed(task.model.name)
        \o <<"/", task.framework, "/">> \o task.precision

\* C16: the prefix passed to upload_directory is
\* base_location/sanitize(model name)/framework/precision without the "s3://"
\* marker of the base location; the location upload_directory returns, which
\* is the one recorded in the entry, is "s3://" followed by that prefix and
\* does not end with a separator, with or without the marker in the
\* configured base location.
C16_RemoteLocation ==
    \A parts \in BaseParts :
        BaseText(parts) = job.model_bucket =>
            /\ _make_model_bucket_prefix(job, tasks[1]) = RemotePrefix(parts, tasks[1])
            /\ Happened("uploaded", 1) =>
                  /\ s3_uri = S3Scheme \o RemotePrefix(parts, tasks[1])
                  /\ s3_uri[Len(s3_uri)] # "/"
            /\ Happened("upsert", 1) =>
                  /\ Len(registry) = 1
                  /\ registry[1].s3_uri = S3Scheme \o RemotePrefix(parts, tasks[1])

\* an entry was recorded for a base location without the marker, with a
\* nested prefix and a trailing separator
C16_Witness ==
    /\ Happened("upsert", 1)
    /\ job.model_bucket = <<"bkt", "/", "models", "/">>
    /\ job.models[1].name = <<"o", "/", "m">>
    /\ registry[1].s3_uri =
          <<"s3:", "/", "/", "bkt", "/", "models", "/", "o", "-", "m", "/",
            "onnx-runtime", "/", "fp32">>

\* the regular files of a directory
RegularFiles(dir) == { f \in dir.files : f.kind # "dir" }

\* C17: upload_directory on a local_dir that does not exist fails and uploads
\* nothing; otherwise, when it returns, every regular file under local_dir,
\* at any depth, was uploaded exactly once, under the key
\* remote_prefix/relative path, and nothing was uploaded for a directory.
C17_UploadDirectory ==
    LET task == tasks[1]
        local_dir == fs[task.output_dir]
        remote == _make_model_bucket_prefix(job, task)
    IN  /\ (~local_dir.exists /\ Happened("upload", 1)) =>
              /\ status = "failed"
              /\ ~Happened("uploaded", 1)
              /\ s3 = {}
              /\ s3_uri = None
        /\ Happened("uploaded", 1) =>
              /\ local_dir.exists
              /\ \A f \in RegularFiles(local_dir) :
                    /\ Cardinality({ o \in s3 : o.body = f }) = 1
                    /\ \A o \in s3 :
                          o.body = f =>
                              /\ o.bucket \o <<"/">> \o o.key
                                    = remote \o <<"/">> \o f.name
                              /\ "/" \notin { o.bucket[k] : k \in 1..Len(o.bucket) }
              /\ \A o \in s3 : o.body \in RegularFiles(local_dir)

\* a directory with a file, a subdirectory and a file inside it was uploaded
C17_Witness ==
    /\ Happened("uploaded", 1)
    /\ fs[tasks[1].output_dir].files = {Output(tasks[1]), Nested(tasks[1]), SubDir}
    /\ Cardinality(s3) = 2
    /\ \E o \in s3 : o.body = Nested(tasks[1])

----------------------------------------------------------------------------
(* config.py: ModelRegistry.filter on a loaded registry *)

\* the list comprehension of filter
RECURSIVE Select(_, _)
Select(artifacts, names) ==
    IF artifacts = <<>> THEN <<>>
    ELSE (IF Head(artifacts).framework \in names THEN <<Head(artifacts)>> ELSE <<>>)
            \o Select(Tail(artifacts), names)

\* a filter that returns every entry whatever frameworks is
filter_all(artifacts, frameworks) == artifacts

filter(artifacts, frameworks) ==
    IF frameworks.is_none THEN artifacts ELSE Select(artifacts, frameworks.names)

FilterArgs ==
    {NoFrameworks} \cup
    { [is_none |-> FALSE, names |-> S] :
        S \in {{}, {"onnx-runtime"}, {"openvino", "tensorrt"}, {"onnx-runtime", "openvino"}} }

\* registry files with entries that differ in the framework only
FilterForms ==
    {NoFile} \cup
    { File("complete", safe_dump([artifacts |-> a])) :
        a \in SeqsUpTo({ e \in RegEntries : e.model_name = <<"o", "/", "m">>
                                              /\ e.s3_uri = None }, MaxFileLen) }

\* registry = ModelRegistry.from_path(path)
FilterInit ==
    \E file \in FilterForms :
        /\ job = NoJob
        /\ upload = FALSE
        /\ registry = from_path(file)
        /\ disk = file
        /\ fs = [d \in OutputDirs |-> AbsentDir]
        /\ cache_base = FALSE
        /\ s3 = {}
        /\ status = "idle"
        /\ pc = "start"
        /\ tasks = <<>>
        /\ idx = 0
        /\ s3_uri = None
        /\ run = 0
        /\ log = <<>>
        /\ prev = NoPrev
        /\ upserted = <<>>
        /\ ops = 0
        /\ result = NoResult
        /\ saved = NoSave

\* registry.filter(frameworks=...)
RegFilter ==
    /\ ops < MaxOps
    /\ \E frameworks \in FilterArgs :
        result' = [called |-> TRUE, frameworks |-> frameworks, of |-> registry,
                   value |-> filter(registry, frameworks)]
    /\ ops' = ops + 1
    /\ UNCHANGED <<job, upload, registry, disk, fs, cache_base, s3, status, pc, tasks,
                   idx, s3_uri, run, log, prev, upserted, saved>>

SpecFilter == FilterInit /\ [][RegUpsert \/ RegFilter]_vars

\* the positions of the entries of artifacts that frameworks selects
Selected(artifacts, frameworks) ==
    { i \in 1..Len(artifacts) :
        frameworks.is_none \/ artifacts[i].framework \in frameworks.names }

\* the k-th smallest member of a set of positions
Nth(positions, k) ==
    CHOOSE i \in positions : Cardinality({ j \in positions : j <= i }) = k

\* C18: filter does not change the registry; without a frameworks argument it
\* returns all entries in registry order, with one it returns exactly the
\* entries whose framework is in it, in registry order.
C18_FilterReadOnly ==
    /\ [](result.called =>
            LET keep == Selected(result.of, result.frameworks)
            IN  /\ Len(result.value) = Cardinality(keep)
                /\ \A k \in 1..Len(result.value) :
                      result.value[k] = result.of[Nth(keep, k)]
                /\ result.frameworks.is_none => result.value = result.of)
    /\ [][result' # result => (registry' = registry /\ disk' = disk)]_vars

\* a call that dropped an entry between two entries it returned
C18_Witness ==
    /\ result.called
    /\ ~result.frameworks.is_none
    /\ Len(result.of) = 3
    /\ Len(result.value) = 2
    /\ result.value = <<result.of[1], result.of[3]>>
    /\ registry = result.of

----------------------------------------------------------------------------
(* Order of the steps of Converter.run *)

\* the positions of event e of task i in the log of the process
Positions(e, i) ==
    LET ev == Ev(e, i) IN { n \in 1..Len(log) : log[n] = ev }

\* the first of them, 0 if there is none
First(e, i) ==
    LET at == Positions(e, i)
    IN  IF at = {} THEN 0 ELSE CHOOSE n \in at : \A m \in at : n <= m

\* the events e1, e2, ... of task i are the last ones before position n
EndsWith(n, i, evs) ==
    /\ Len(evs) < n
    /\ \A k \in 1..Len(evs) : log[n - Len(evs) + k - 1] = Ev(evs[k], i)

\* right before position n task i went through its converter call, its
\* upload when the run publishes, its upsert and its save, in this order
Completed(i, n) ==
    IF upload
    THEN EndsWith(n, i, <<"convert", "converted", "upload", "uploaded", "upsert",
                          "save", "saved">>)
    ELSE EndsWith(n, i, <<"convert", "converted", "upsert", "save", "saved">>)

\* right before position n task i was skipped
Skipped(i, n) == EndsWith(n, i, <<"skip">>)

\* the events of the log follow the plan, one task after the other
InPlanOrder ==
    /\ \A n \in Events("convert") :
          /\ log[n].task \in 1..Len(tasks)
          /\ \A m \in Events("convert") : n < m => log[n].task < log[m].task
    /\ \A n \in 1..Len(log) :
          /\ n < Len(log) => log[n].task <= log[n + 1].task
          /\ status = "running" => log[n].task <= idx
          /\ log[n].ev = "find" =>
                IF log[n].task = 1 THEN n = 1
                ELSE Skipped(log[n].task - 1, n) \/ Completed(log[n].task - 1, n)

\* C19: in every run the converter invocations follow the plan (their task
\* indices increase), the lookup of task i+1 happens only after task i was
\* skipped or completed its converter call, optional upload, upsert and save
\* (these are the events right before it), and the events of two tasks never
\* interleave.
C19_SequentialInPlanOrder == []InPlanOrder

\* a run of three tasks converted and published one, skipped its repetition
\* and converted the third
C19_Witness ==
    /\ status = "done"
    /\ upload
    /\ Len(tasks) = 3
    /\ Skipped(2, First("find", 3))
    /\ Completed(1, First("find", 2))
    /\ Completed(3, Len(log) + 1)

\* every event of the log comes right after the events that the loop body
\* puts before it
StepsInOrder ==
    \A n \in 1..Len(log) :
        LET i == log[n].task
            e == log[n].ev
        IN  /\ e = "converted" => EndsWith(n, i, <<"convert">>)
            /\ e = "upload" => upload /\ EndsWith(n, i, <<"convert", "converted">>)
            /\ e = "uploaded" => EndsWith(n, i, <<"convert", "converted", "upload">>)
            /\ e = "upsert" =>
                  IF upload
                  THEN EndsWith(n, i, <<"convert", "converted", "upload", "uploaded">>)
                  ELSE EndsWith(n, i, <<"convert", "converted">>)
            /\ e = "save" => EndsWith(n, i, <<"upsert">>)
            /\ e = "saved" => EndsWith(n, i, <<"upsert", "save">>)
            /\ e = "skip" => (n = Len(log) \/ log[n + 1] = Ev("find", i + 1))
            /\ e \in {"convert_failed", "unsupported", "upload_failed", "save_failed"} =>
                  (n = Len(log) /\ status # "running")
            /\ e = "convert" => \A m \in 1..(n - 1) : log[m] # log[n]

\* C20: for a task that is not skipped the steps come in the order converter
\* invocation, upload (only when the run publishes), upsert, save, each right
\* after the one before it; a run upserts an entry only after the converter
\* returned normally for that task in that run, never for a task whose
\* conversion failed or did not happen: a skip is followed by the next task
\* and a failure by nothing.
C20_StepOrder == []StepsInOrder

\* a publishing run recorded its first task and stopped at the failing
\* conversion of the second without recording it
C20_Witness ==
    /\ status = "failed"
    /\ upload
    /\ Completed(1, First("find", 2))
    /\ Happened("convert_failed", 2)
    /\ ~Happened("upsert", 2)
    /\ Len(registry) = 1

----------------------------------------------------------------------------
(* The upload flag of Converter.run *)

\* the entry that the registry holds for the triple of task i
EntryFor(i) ==
    find(registry, tasks[i].model.name, tasks[i].framework, tasks[i].precision)

\* the location that upload_directory returns for task i
RemoteLocation(i) ==
    LET parts == CHOOSE p \in BaseParts : BaseText(p) = job.model_bucket
    IN  S3Scheme \o RemotePrefix(parts, tasks[i])

\* upload_directory is called exactly after a converter's return of a
\* publishing run, and the upserted entries carry what it returned
PublishFlag ==
    /\ ~upload => s3 = {}
    /\ \A n \in 1..Len(log) :
          LET i == log[n].task
              e == log[n].ev
          IN  /\ e = "upload" => upload /\ EndsWith(n, i, <<"converted">>)
              /\ (e = "converted" /\ upload) =>
                    IF n = Len(log)
                    THEN idx = i /\ pc = "upload" /\ status \in {"running", "crashed"}
                    ELSE log[n + 1] = Ev("upload", i)
              /\ e = "upsert" =>
                    /\ EntryFor(i) # NoEntry
                    /\ EntryFor(i).s3_uri = IF upload THEN RemoteLocation(i) ELSE None
                    /\ upload => EndsWith(n, i, <<"uploaded">>)

\* C21: upload_directory is invoked for a task if and only if upload is true
\* and the task's converter returned normally; with upload false nothing is
\* ever uploaded and every entry the run upserts has no remote location, with
\* upload true every entry the run upserts carries the location that
\* upload_directory returned.
C21_PublishFlag == []PublishFlag

\* a publishing run uploaded and recorded two tasks with their locations
C21_Witness ==
    /\ upload
    /\ status = "done"
    /\ Happened("uploaded", 1)
    /\ Happened("uploaded", 2)
    /\ EntryFor(1).s3_uri = RemoteLocation(1)
    /\ EntryFor(2).s3_uri = RemoteLocation(2)
    /\ s3 # {}

----------------------------------------------------------------------------
(* The output directories *)

\* C22: whenever a converter is invoked for a task, the task's output
\* directory exists and is empty, also with overwrite=false when an earlier
\* run that crashed or failed left the directory behind.
C22_EmptyDirAtInvocation ==
    Running("converting") =>
        /\ fs[tasks[idx].output_dir].exists
        /\ fs[tasks[idx].output_dir].files = {}

\* the directory of the entry holds the complete output of a conversion of
\* the entry's model and framework, and nothing half written
HoldsOutput(entry) ==
    /\ fs[entry.local_path].exists
    /\ \E f \in fs[entry.local_path].files :
          f.kind = "out" /\ f.model = entry.model_name /\ f.framework = entry.framework
    /\ \A f \in fs[entry.local_path].files : f.kind # "partial"

\* the process is between two tasks or has ended, normally or with an error
AtTaskBoundary == Running("find") \/ status \in {"done", "failed"}

\* C23: at every task boundary and at the end of every run every entry of
\* the persisted registry names a directory that exists and holds the
\* complete output of a conversion of its model and framework, also after a
\* failed re-conversion under overwrite=true.
C23_EntriesPointAtOutput ==
    AtTaskBoundary =>
        \A k \in 1..Len(from_path(disk)) : HoldsOutput(from_path(disk)[k])

\* C24: two planned tasks with different (model_name, framework, precision)
\* triples never share an output directory or a remote prefix, also when the
\* model names differ only in "/" versus "-", so the directory that a task
\* purges or writes is never the one recorded for another triple.
C24_DisjointOutputs ==
    /\ \A i \in 1..Len(tasks) : \A j \in 1..Len(tasks) :
          TaskTriple(tasks[i]) # TaskTriple(tasks[j]) =>
              /\ tasks[i].output_dir # tasks[j].output_dir
              /\ _make_model_bucket_prefix(job, tasks[i])
                    # _make_model_bucket_prefix(job, tasks[j])
    /\ \A n \in Events("convert") :
          \A k \in 1..Len(registry) :
              Triple(registry[k]) # TaskTriple(tasks[log[n].task]) =>
                  registry[k].local_path # tasks[log[n].task].output_dir

----------------------------------------------------------------------------
(* Repeated pairs in a job *)

\* no triple is converted twice, no task is converted behind an earlier task
\* of the same triple, and there are never more invocations than tasks
OncePerTriple ==
    /\ Cardinality(Events("convert")) <= Len(tasks)
    /\ ~job.overwrite =>
          \A n \in Events("convert") :
              /\ \A m \in Events("convert") :
                    n # m => TaskTriple(tasks[log[n].task]) # TaskTriple(tasks[log[m].task])
              /\ \A i \in 1..(log[n].task - 1) :
                    TaskTriple(tasks[i]) # TaskTriple(tasks[log[n].task])

\* C25: within a run with overwrite=false the converter is invoked at most
\* once per (model_name, framework, precision) triple, also when the job
\* lists a model or a framework more than once: the later occurrences are
\* skipped; a run never invokes the converter more often than it has tasks.
C25_OncePerTriple == []OncePerTriple

\* a job that lists one model twice: converted once, skipped once
C25_Witness ==
    /\ ~job.overwrite
    /\ status = "done"
    /\ Len(tasks) = 2
    /\ TaskTriple(tasks[1]) = TaskTriple(tasks[2])
    /\ Cardinality(Events("convert")) = 1
    /\ Happened("skip", 2)

----------------------------------------------------------------------------
(* config.py: save and from_path of a registry built by a caller *)

\* entries with and without a remote location, and with texts that a YAML
\* reader would take for null if they were written plain
RoundTripEntries ==
    { RegistryEntry(n, "onnx-runtime", Precision, "cls", "main",
                    Join(Join(Join(LocalCache, _sanitize(n)), <<"onnx-runtime">>), Precision),
                    uri) :
        n \in {<<"o", "/", "m">>, <<"null">>},
        uri \in {None, <<"null">>, S3Scheme \o <<"bkt">>} }

\* registry = ModelRegistry(artifacts=[...])
RoundTripInit ==
    /\ job = NoJob
    /\ upload = FALSE
    /\ registry \in {<<>>} \cup SeqsUpTo(RoundTripEntries, MaxFileLen)
    /\ disk = NoFile
    /\ fs = [d \in OutputDirs |-> AbsentDir]
    /\ cache_base = FALSE
    /\ s3 = {}
    /\ status = "idle"
    /\ pc = "start"
    /\ tasks = <<>>
    /\ idx = 0
    /\ s3_uri = None
    /\ run = 0
    /\ log = <<>>
    /\ prev = NoPrev
    /\ upserted = registry
    /\ ops = 0
    /\ result = NoResult
    /\ saved = NoSave

SpecRoundTrip == RoundTripInit /\ [][RegSave \/ RegLoad]_vars

\* C26: from_path after a completed save to the same path returns a registry
\* with the same entries, the same field values (an absent remote location
\* included) and the same order as the registry that was saved.
C26_SaveLoadIdentity ==
    saved.valid =>
        /\ disk.state = "complete"
        /\ from_path(disk) = saved.artifacts
        /\ upserted = <<>> => registry = saved.artifacts

\* a registry of two entries, one without a remote location and one whose
\* location reads "null", was saved and loaded again
C26_Witness ==
    /\ saved.valid
    /\ upserted = <<>>
    /\ Len(registry) = 2
    /\ registry = saved.artifacts
    /\ registry[1].s3_uri = None
    /\ registry[2].s3_uri = <<"null">>
    /\ registry[2].model_name = <<"null">>

----------------------------------------------------------------------------
(* The frame of ModelRegistry.upsert *)

\* the entries of artifacts whose triple differs from that of entry, in order
RECURSIVE Others(_, _)
Others(artifacts, entry) ==
    IF artifacts = <<>> THEN <<>>
    ELSE (IF Triple(Head(artifacts)) # Triple(entry) THEN <<Head(artifacts)>> ELSE <<>>)
            \o Others(Tail(artifacts), entry)

\* the step is an upsert: the history of upserts grows by its entry
IsUpsertStep == Len(upserted') = Len(upserted) + 1

\* C27: an upsert of an entry with triple t leaves every entry whose triple
\* differs from t unchanged and in the same relative order, places the new
\* entry last, and changes the number of entries by 0 when t was present and
\* by +1 when it was absent.
C27_UpsertFrame ==
    [][IsUpsertStep =>
        LET entry == upserted'[Len(upserted')]
            present == \E k \in 1..Len(registry) : Triple(registry[k]) = Triple(entry)
        IN  /\ Others(registry', entry) = Others(registry, entry)
            /\ registry'[Len(registry')] = entry
            /\ Len(registry') = Len(registry) + (IF present THEN 0 ELSE 1)]_vars

\* a loaded registry of two entries had its first entry replaced: the other
\* entry moved to the front and the new entry stands last
C27_Witness ==
    /\ Len(upserted) = 1
    /\ Len(registry) = 2
    /\ Len(from_path(disk)) = 2
    /\ registry[2] = upserted[1]
    /\ registry[1] = from_path(disk)[2]
    /\ Triple(from_path(disk)[1]) = Triple(upserted[1])
    /\ from_path(disk)[1] # upserted[1]
    /\ Triple(registry[1]) # Triple(registry[2])

====
